---- MODULE Spec2Model ----
(***************************************************************************)
(* Model of src/python/docling_bridge.py: one invocation of the bridge     *)
(* process, from the import guard at module load to process exit.          *)
(*                                                                         *)
(* Text produced by the library (the markdown) is a Python str.  It is     *)
(* represented run-length encoded: a sequence of runs <<class, n>>, n >= 1,*)
(* adjacent runs of different class, where class "ws" is a whitespace     *)
(* character, "ch" an ordinary character and "dot" the character '.'.      *)
(* Slicing, stripping, splitting and concatenation are computed on that    *)
(* representation exactly as Python computes them on the characters.       *)
(***************************************************************************)
EXTENDS Integers, Sequences, FiniteSets, TLC

\* ---------------------------------------------------------------- bounds
\* longest markdown drawn, in runs of equal-class characters
MaxRuns == 3

\* ------------------------------------------------------ program constants
\* markdown[:500] and len(markdown) > 500
PreviewLimit == 500

\* ------------------------------------------------------------ Python str
Classes == {"ws", "ch"}

\* run lengths drawn: short runs and runs around the preview limit
RunLens == {1, PreviewLimit - 2, PreviewLimit - 1, PreviewLimit, PreviewLimit + 1}

NormalForm(s) == \A i \in 1..(Len(s) - 1) : s[i][1] # s[i + 1][1]

Markdowns ==
  { s \in UNION { [1..n -> Classes \X RunLens] : n \in 0..MaxRuns } : NormalForm(s) }

RECURSIVE StrLen(_)
\* len(s)
StrLen(s) == IF s = <<>> THEN 0 ELSE s[1][2] + StrLen(Tail(s))

RECURSIVE Slice(_, _)
\* s[:k]
Slice(s, k) ==
  IF s = <<>> \/ k <= 0 THEN <<>>
  ELSE IF s[1][2] <= k THEN <<s[1]>> \o Slice(Tail(s), k - s[1][2])
  ELSE << <<s[1][1], k>> >>

\* s.lstrip(): in normal form all leading whitespace is the first run
LStrip(s) == IF s # <<>> /\ s[1][1] = "ws" THEN Tail(s) ELSE s

\* s.rstrip()
RStrip(s) == IF s # <<>> /\ s[Len(s)][1] = "ws" THEN SubSeq(s, 1, Len(s) - 1) ELSE s

\* s.strip()
Strip(s) == RStrip(LStrip(s))

\* s + t, kept in normal form
Concat(s, t) ==
  IF s = <<>> THEN t
  ELSE IF t = <<>> THEN s
  ELSE IF s[Len(s)][1] = t[1][1]
       THEN SubSeq(s, 1, Len(s) - 1)
            \o << <<t[1][1], s[Len(s)][2] + t[1][2]>> >>
            \o Tail(t)
       ELSE s \o t

\* len(s.split()): the maximal runs of non-whitespace characters
SplitLen(s) ==
  Cardinality({ i \in 1..Len(s) : s[i][1] # "ws" /\ (i = 1 \/ s[i - 1][1] = "ws") })

\* the literal "..."
Ellipsis == << <<"dot", 3>> >>

\* ---------------------------------------------------------- Python values
PyNone == [type |-> "NoneType"]
PyStr(s) == [type |-> "str", runs |-> s]
PyName(t) == [type |-> "str", lit |-> t]
PyObject == [type |-> "object"]
PyList(n) == [type |-> "list", len |-> n]
Absent == [type |-> "absent"]

\* bool(v) as used by `or`
Truthy(v) ==
  CASE v.type = "NoneType" -> FALSE
    [] v.type = "str" /\ "lit" \in DOMAIN v -> v.lit # ""
    [] OTHER -> TRUE


\* ---------------------------------------------------------- pathlib.Path
Paths == {"missing.docx", "report.pdf", "file.XYZ"}

\* p.stem
Stem(path) ==
  CASE path = "missing.docx" -> "missing"
    [] path = "report.pdf" -> "report"
    [] path = "file.XYZ" -> "file"

\* p.suffix
Suffix(path) ==
  CASE path = "missing.docx" -> ".docx"
    [] path = "report.pdf" -> ".pdf"
    [] path = "file.XYZ" -> ".XYZ"

\* str.lower()
Lower(s) == IF s = ".XYZ" THEN ".xyz" ELSE s

\* str.lstrip('.')
LStripDot(s) ==
  CASE s = ".docx" -> "docx"
    [] s = ".pdf" -> "pdf"
    [] s = ".xyz" -> "xyz"
    [] s = ".XYZ" -> "XYZ"

\* str(p.absolute()): the working directory joined with a relative path
Absolute(path) == <<"/cwd", path>>

\* --------------------------------------------------------- the environment
\* sys.argv: the script name, then the arguments given
Argvs ==
  { <<"docling_bridge.py">> }
    \cup { <<"docling_bridge.py", path>> : path \in Paths }
    \cup { <<"docling_bridge.py", "report.pdf", "extra">> }

\* what os.stat answers for the path: a file; ENOENT; or, for a name longer
\* than the file system allows, so that no file has it, ENAMETOOLONG, an
\* error that Path.exists() re-raises (Python 3.13 and earlier)
FileStates == {"file", "absent", "toolong"}

\* exceptions the library raises, as (type, message)
LibExc ==
  { [type |-> "RuntimeError", msg |-> "Unsupported format"],
    [type |-> "ValueError", msg |-> ""] }

NoExc == [type |-> "none", msg |-> ""]
StatError == [type |-> "OSError", msg |-> "[Errno 36] File name too long"]
VanishedError == [type |-> "FileNotFoundError", msg |-> "[Errno 2] No such file or directory"]
NoLenError == [type |-> "TypeError", msg |-> "object of type 'object' has no len()"]
NoSplitError == [type |-> "AttributeError", msg |-> "'NoneType' object has no attribute 'split'"]
NotSerializable == [type |-> "TypeError", msg |-> "Object of type object is not JSON serializable"]

\* the document objects the library returns: an optional title attribute
\* and an optional page collection
Docs ==
  [ title : {Absent, PyName(""), PyName("Q3 Report"), PyObject},
    pages : {Absent, PyList(2), PyObject} ]

NoDoc == [title |-> Absent, pages |-> Absent]

\* what doc.export_to_markdown() returns
Exports == { PyStr(s) : s \in Markdowns } \cup {PyNone}

FileSizes == {0, 2048}
Now == "2024-01-01T00:00:00"

\* ------------------------------------------------------------- the results
None == [none |-> TRUE]

\* the exception's type name where its message is meant
StrTypeName(e) == <<e.type>>

\* str(e)
Str(e) == <<e.msg>>

\* lines 12-15
MissingDepResult ==
  [success |-> FALSE, error |-> <<"Docling not installed. Run: pip install docling">>]

\* line 68
UsageResult ==
  [success |-> FALSE, error |-> <<"Usage: docling_bridge.py <file_path>">>]

\* line 24
NotFoundResult(path) == [success |-> FALSE, error |-> <<"File not found: ", path>>]

\* an error result that also carries a markdown key
ExceptResultPartial(e) == [success |-> FALSE, error |-> Str(e), markdown |-> PyNone]

\* line 63
ExceptResult(e) == [success |-> FALSE, error |-> Str(e)]

\* lines 55-60
SuccessResult(md, meta, pv) ==
  [success |-> TRUE, markdown |-> md, metadata |-> meta, preview |-> pv]

\* getattr(doc, 'title', None)
GetTitle(d) == IF d.title = Absent THEN PyNone ELSE d.title

\* getattr(doc, 'title', None) or p.stem
Title(d, path) == IF Truthy(GetTitle(d)) THEN GetTitle(d) ELSE PyName(Stem(path))

\* lines 35-41
Metadata(d, path, size) ==
  [ title |-> Title(d, path),
    source_path |-> Absolute(path),
    source_format |-> LStripDot(Lower(Suffix(path))),
    file_size_bytes |-> size,
    converted_at |-> Now ]

\* metadata["page_count"] = n
WithKey(meta, key, n) ==
  [k \in DOMAIN meta \cup {key} |-> IF k = key THEN n ELSE meta[k]]

\* the text stripped before it is sliced
PreviewStripFirst(md) ==
  IF StrLen(md) > PreviewLimit
  THEN Concat(Slice(Strip(md), PreviewLimit), Ellipsis)
  ELSE Slice(Strip(md), PreviewLimit)

\* the marker appended from 500 characters on
PreviewFromLimit(md) ==
  IF StrLen(md) >= PreviewLimit
  THEN Concat(Strip(Slice(md, PreviewLimit)), Ellipsis)
  ELSE Strip(Slice(md, PreviewLimit))

\* lines 51-53
Preview(md) ==
  IF StrLen(md) > PreviewLimit
  THEN Concat(Strip(Slice(md, PreviewLimit)), Ellipsis)
  ELSE Strip(Slice(md, PreviewLimit))

\* json.dumps raises TypeError on a value that is no str, number, list or dict
Serializable(r) == r.success => r.metadata.title.type = "str"

\* json.dumps(result): the one-line JSON text of the object
JsonDumps(r) == [json_object |-> r]

\* main without its closing sys.exit(1)
ExitStatusZero(r) == 0

\* lines 74-75, and falling off the end of main
ExitStatus(r) == IF ~r.success THEN 1 ELSE 0


\* ------------------------------------------------------------------ state
VARIABLES
  pc,           \* the statement the process is at; "done" once it has exited
  libInstalled, \* whether `from docling.document_converter import ...` succeeds
  sys_argv,     \* sys.argv
  fileState,    \* what the file system answers for sys.argv[1]
  stdout,       \* the lines printed
  exitCode,     \* the process exit status, -1 while running
  uncaught,     \* the exception that ended the process with a traceback
  path,         \* convert's argument
  doc,          \* result.document
  markdown,     \* convert's local
  metadata,     \* convert's local
  preview,      \* convert's local
  result,       \* main's local: what convert returned
  raised,       \* the exception the except clause of convert caught
  reached       \* the checks and library calls executed so far

vars ==
  << pc, libInstalled, sys_argv, fileState, stdout, exitCode, uncaught, path,
     doc, markdown, metadata, preview, result, raised, reached >>

env == << libInstalled, sys_argv, fileState >>
locals == << path, doc, markdown, metadata, preview >>

\* sys.argv[i]
Argv(i) == sys_argv[i + 1]

Init ==
  /\ pc = "import"
  /\ libInstalled \in BOOLEAN
  /\ sys_argv \in Argvs
  /\ fileState \in FileStates
  /\ stdout = <<>>
  /\ exitCode = -1
  /\ uncaught = NoExc
  /\ path = ""
  /\ doc = NoDoc
  /\ markdown = PyNone
  /\ metadata = None
  /\ preview = PyNone
  /\ result = None
  /\ raised = NoExc
  /\ reached = {}

\* print(json.dumps(r)); sys.exit(code)
PrintAndExit(r, code) ==
  /\ stdout' = Append(stdout, JsonDumps(r))
  /\ exitCode' = code
  /\ pc' = "done"

\* an exception no handler catches: traceback on stderr, exit status 1
Traceback(e) ==
  /\ uncaught' = e
  /\ exitCode' = 1
  /\ pc' = "done"

\* lines 9-10: the import succeeds
ImportOk ==
  /\ pc = "import"
  /\ libInstalled
  /\ pc' = "main"
  /\ UNCHANGED << env, stdout, exitCode, uncaught, locals, result, raised, reached >>

\* the import guard without its sys.exit(1)
ImportFailedNoExit ==
  /\ pc = "import"
  /\ ~libInstalled
  /\ stdout' = Append(stdout, JsonDumps(MissingDepResult))
  /\ pc' = "main"
  /\ UNCHANGED << env, exitCode, uncaught, locals, result, raised, reached >>

\* lines 11-16: the import raises ImportError
ImportFailed ==
  /\ pc = "import"
  /\ ~libInstalled
  /\ PrintAndExit(MissingDepResult, 1)
  /\ UNCHANGED << env, uncaught, locals, result, raised, reached >>

\* the usage branch exiting with status 0
MainUsageExitZero ==
  /\ pc = "main"
  /\ Len(sys_argv) < 2
  /\ PrintAndExit(UsageResult, 0)
  /\ reached' = reached \cup {"argcheck"}
  /\ UNCHANGED << env, uncaught, locals, result, raised >>

\* lines 67-69
MainUsage ==
  /\ pc = "main"
  /\ Len(sys_argv) < 2
  /\ PrintAndExit(UsageResult, 1)
  /\ reached' = reached \cup {"argcheck"}
  /\ UNCHANGED << env, uncaught, locals, result, raised >>

\* lines 67, 71, 21: the call convert(sys.argv[1])
MainConvert ==
  /\ pc = "main"
  /\ ~(Len(sys_argv) < 2)
  /\ path' = Argv(1)
  /\ pc' = "exists"
  /\ reached' = reached \cup {"argcheck"}
  /\ UNCHANGED << env, stdout, exitCode, uncaught, doc, markdown, metadata,
                  preview, result, raised >>

\* lines 23-24: p.exists() is False
ExistsFalse ==
  /\ pc = "exists"
  /\ fileState = "absent"
  /\ result' = NotFoundResult(path)
  /\ pc' = "print"
  /\ reached' = reached \cup {"exists"}
  /\ UNCHANGED << env, stdout, exitCode, uncaught, locals, raised >>

\* line 23: p.exists() is True
ExistsTrue ==
  /\ pc = "exists"
  /\ fileState = "file"
  /\ pc' = "construct"
  /\ reached' = reached \cup {"exists"}
  /\ UNCHANGED << env, stdout, exitCode, uncaught, locals, result, raised >>

\* line 23: p.exists() raises OSError, outside the try block
ExistsRaises ==
  /\ pc = "exists"
  /\ fileState = "toolong"
  /\ Traceback(StatError)
  /\ reached' = reached \cup {"exists"}
  /\ UNCHANGED << env, stdout, locals, result, raised >>

\* line 27
Construct ==
  /\ pc = "construct"
  /\ pc' = "convert"
  /\ reached' = reached \cup {"DocumentConverter"}
  /\ UNCHANGED << env, stdout, exitCode, uncaught, locals, result, raised >>

\* lines 28-29
Convert ==
  /\ pc = "convert"
  /\ \E d \in Docs : doc' = d
  /\ pc' = "export"
  /\ reached' = reached \cup {"convert"}
  /\ UNCHANGED << env, stdout, exitCode, uncaught, path, markdown, metadata,
                  preview, result, raised >>

\* line 32
Export ==
  /\ pc = "export"
  /\ \E m \in Exports : markdown' = m
  /\ pc' = "metadata"
  /\ reached' = reached \cup {"export_to_markdown"}
  /\ UNCHANGED << env, stdout, exitCode, uncaught, path, doc, metadata,
                  preview, result, raised >>

\* lines 35-41
BuildMetadata ==
  /\ pc = "metadata"
  /\ \E size \in FileSizes : metadata' = Metadata(doc, path, size)
  /\ pc' = "pages"
  /\ reached' = reached \cup {"stat"}
  /\ UNCHANGED << env, stdout, exitCode, uncaught, path, doc, markdown,
                  preview, result, raised >>

\* lines 44-45
PageCount ==
  /\ pc = "pages"
  /\ doc.pages.type # "object"
  /\ metadata' = IF doc.pages = Absent
                 THEN metadata
                 ELSE WithKey(metadata, "page_count", doc.pages.len)
  /\ pc' = "wordcount"
  /\ UNCHANGED << env, stdout, exitCode, uncaught, path, doc, markdown,
                  preview, result, raised, reached >>

\* line 48
WordCount ==
  /\ pc = "wordcount"
  /\ markdown.type = "str"
  /\ metadata' = WithKey(metadata, "word_count", SplitLen(markdown.runs))
  /\ pc' = "preview"
  /\ UNCHANGED << env, stdout, exitCode, uncaught, path, doc, markdown,
                  preview, result, raised, reached >>

\* lines 51-53
MakePreview ==
  /\ pc = "preview"
  /\ preview' = PyStr(Preview(markdown.runs))
  /\ pc' = "return"
  /\ UNCHANGED << env, stdout, exitCode, uncaught, path, doc, markdown,
                  metadata, result, raised, reached >>

\* lines 55-60
ReturnSuccess ==
  /\ pc = "return"
  /\ result' = SuccessResult(markdown, metadata, preview)
  /\ pc' = "print"
  /\ UNCHANGED << env, stdout, exitCode, uncaught, locals, raised, reached >>

\* the exceptions the statement at a position of the try block can raise
Raisable(at) ==
  CASE at \in {"construct", "convert", "export"} -> LibExc
    [] at = "metadata" -> {VanishedError}
    [] at = "pages" -> IF doc.pages.type = "object" THEN {NoLenError} ELSE {}
    [] at = "wordcount" -> IF markdown.type # "str" THEN {NoSplitError} ELSE {}
    [] OTHER -> {}

\* the library call or attribute access the statement at a position makes
CallAt(at) ==
  CASE at = "construct" -> {"DocumentConverter"}
    [] at = "convert" -> {"convert"}
    [] at = "export" -> {"export_to_markdown"}
    [] at = "metadata" -> {"stat"}
    [] OTHER -> {}

\* lines 26, 62-63: a statement of the try block raises
Except ==
  /\ \E e \in Raisable(pc) :
       /\ raised' = e
       /\ result' = ExceptResult(e)
  /\ reached' = reached \cup CallAt(pc)
  /\ pc' = "print"
  /\ UNCHANGED << env, stdout, exitCode, uncaught, locals >>

\* line 72
PrintResult ==
  /\ pc = "print"
  /\ Serializable(result)
  /\ stdout' = Append(stdout, JsonDumps(result))
  /\ pc' = "exit"
  /\ UNCHANGED << env, exitCode, uncaught, locals, result, raised, reached >>

\* line 72: json.dumps raises TypeError, outside any try block
DumpsRaises ==
  /\ pc = "print"
  /\ ~Serializable(result)
  /\ Traceback(NotSerializable)
  /\ UNCHANGED << env, stdout, locals, result, raised, reached >>

\* lines 74-75, or the end of main
Exit ==
  /\ pc = "exit"
  /\ exitCode' = ExitStatus(result)
  /\ pc' = "done"
  /\ UNCHANGED << env, stdout, uncaught, locals, result, raised, reached >>

Next ==
  \/ ImportOk
  \/ ImportFailed
  \/ MainUsage
  \/ MainConvert
  \/ ExistsFalse
  \/ ExistsTrue
  \/ ExistsRaises
  \/ Construct
  \/ Convert
  \/ Export
  \/ BuildMetadata
  \/ PageCount
  \/ WordCount
  \/ MakePreview
  \/ ReturnSuccess
  \/ Except
  \/ PrintResult
  \/ DumpsRaises
  \/ Exit

Spec == Init /\ [][Next]_vars


\* ----------------------------------------------------------------- claims
Terminated == pc = "done"

\* the results printed so far
Printed == { stdout[i].json_object : i \in 1..Len(stdout) }

\* the results the program has produced: convert's return value and
\* everything printed
Produced == Printed \cup (IF "success" \in DOMAIN result THEN {result} ELSE {})

\* the steps that process the arguments or touch the file or the library
ArgumentProcessing ==
  {"argcheck", "exists", "DocumentConverter", "convert", "export_to_markdown", "stat"}

\* C1: every terminated run has printed exactly one result.
C1_PrintedExactlyOnce == Terminated => Len(stdout) = 1

\* C2: a terminated run has exit status 0 or 1; the status is 0 exactly when
\* a result with success = true was printed, and every printed failure
\* result comes with status 1.
C2_ExitCodeMatchesSuccess ==
  Terminated =>
    /\ exitCode \in {0, 1}
    /\ exitCode = 0 <=> (\E r \in Printed : r.success)
    /\ \A r \in Printed : ~r.success => exitCode = 1

C2_Witness ==
  /\ Terminated
  /\ exitCode = 0
  /\ Len(stdout) = 1
  /\ stdout[1].json_object.success

\* C3: every result produced has exactly the keys of a success (success,
\* markdown, metadata, preview) when success is true, and exactly the keys
\* of a failure (success, error) when it is false.
C3_ResultShape ==
  \A r \in Produced :
    /\ r.success => DOMAIN r = {"success", "markdown", "metadata", "preview"}
    /\ ~r.success => DOMAIN r = {"success", "error"}

C3_Witness ==
  /\ Terminated
  /\ raised # NoExc
  /\ metadata # None
  /\ \E r \in Printed : ~r.success

\* C4: when the library has loaded, for a path that is no existing file
\* the run never builds or calls the converter, and ends having printed
\* exactly the "File not found: <path>" failure, with exit status 1.
C4_NotFoundReported ==
  (libInstalled /\ Len(sys_argv) >= 2 /\ fileState # "file") =>
    /\ reached \cap {"DocumentConverter", "convert"} = {}
    /\ Terminated =>
         /\ stdout = << JsonDumps([success |-> FALSE,
                                   error |-> <<"File not found: ", Argv(1)>>]) >>
         /\ exitCode = 1

\* C5 as stated: a run given no path argument never checks the file nor
\* calls the library, and ends having printed exactly the usage failure,
\* with exit status 1.
C5_Original ==
  Len(sys_argv) < 2 =>
    /\ reached \cap (ArgumentProcessing \ {"argcheck"}) = {}
    /\ Terminated =>
         /\ stdout = << JsonDumps([success |-> FALSE,
                                   error |-> <<"Usage: docling_bridge.py <file_path>">>]) >>
         /\ exitCode = 1

\* C5 amended: the same, when the library loaded at startup.
C5_UsageWhenLoaded ==
  (libInstalled /\ Len(sys_argv) < 2) =>
    /\ reached \cap (ArgumentProcessing \ {"argcheck"}) = {}
    /\ Terminated =>
         /\ stdout = << JsonDumps([success |-> FALSE,
                                   error |-> <<"Usage: docling_bridge.py <file_path>">>]) >>
         /\ exitCode = 1

C5_Witness ==
  /\ Terminated
  /\ libInstalled
  /\ Len(sys_argv) < 2
  /\ "argcheck" \in reached
  /\ Len(stdout) = 1

\* C6: once a statement of the conversion or of the result extraction has
\* raised, convert's result is the failure carrying the exception's message,
\* and the run ends having printed exactly that result, with exit status 1.
C6_ExceptionReported ==
  raised # NoExc =>
    /\ result = [success |-> FALSE, error |-> <<raised.msg>>]
    /\ Terminated =>
         /\ stdout = << JsonDumps([success |-> FALSE, error |-> <<raised.msg>>]) >>
         /\ exitCode = 1
         /\ uncaught = NoExc

C6_Witness ==
  /\ Terminated
  /\ raised = VanishedError
  /\ "export_to_markdown" \in reached
  /\ Len(stdout) = 1

\* C7: no run ends in an uncaught exception, and every run that ends with a
\* nonzero status has printed a result with an error field.
C7_NoUncaughtException ==
  Terminated =>
    /\ uncaught = NoExc
    /\ exitCode # 0 => \E r \in Printed : "error" \in DOMAIN r

\* C8: when the library fails to load, no step of argument processing is
\* ever executed, whatever the arguments, and the run ends having printed
\* exactly the installation-instruction failure, with exit status 1.
C8_MissingDependencyFirst ==
  ~libInstalled =>
    /\ reached \cap ArgumentProcessing = {}
    /\ pc \in {"import", "done"}
    /\ Terminated =>
         /\ stdout = << JsonDumps([success |-> FALSE,
                          error |-> <<"Docling not installed. Run: pip install docling">>]) >>
         /\ exitCode = 1

C8_Witness ==
  /\ Terminated
  /\ ~libInstalled
  /\ Len(sys_argv) >= 2
  /\ fileState = "file"
  /\ Len(stdout) = 1

\* the first 500 characters of the markdown of a successful result
FirstChars(r) == Slice(r.markdown.runs, 500)

\* C9 as stated: in a successful result whose markdown is longer than 500
\* characters, preview is the trimmed first 500 characters followed by
\* "...", and it is 503 characters long unless the trimming removed
\* trailing whitespace.
C9_Original ==
  \A r \in Produced :
    (r.success /\ StrLen(r.markdown.runs) > 500) =>
      /\ r.preview.runs = Concat(Strip(FirstChars(r)), Ellipsis)
      /\ StrLen(r.preview.runs) = 503 \/ RStrip(FirstChars(r)) # FirstChars(r)

\* C9 amended: the same, with the length 503 unless the trimming removed
\* leading or trailing whitespace; the length is then 503 less the number
\* of characters trimmed.
C9_LongPreview ==
  \A r \in Produced :
    (r.success /\ StrLen(r.markdown.runs) > 500) =>
      /\ r.preview.runs = Concat(Strip(FirstChars(r)), Ellipsis)
      /\ StrLen(r.preview.runs) = 503 \/ Strip(FirstChars(r)) # FirstChars(r)
      /\ StrLen(r.preview.runs) = 503 - (500 - StrLen(Strip(FirstChars(r))))

C9_Witness ==
  \E r \in Printed :
    /\ r.success
    /\ StrLen(r.markdown.runs) > 500
    /\ LStrip(FirstChars(r)) # FirstChars(r)
    /\ RStrip(FirstChars(r)) = FirstChars(r)
    /\ StrLen(r.preview.runs) = 502

\* C10: in a successful result whose markdown is at most 500 characters
\* long, preview is the whole markdown trimmed, with no marker; preview ends
\* with the appended marker exactly when the markdown is longer than 500.
C10_ShortPreview ==
  \A r \in Produced :
    r.success =>
      /\ StrLen(r.markdown.runs) <= 500 => r.preview.runs = Strip(r.markdown.runs)
      /\ (r.preview.runs = Concat(Strip(FirstChars(r)), Ellipsis))
           <=> StrLen(r.markdown.runs) > 500

C10_Witness ==
  \E r \in Printed :
    /\ r.success
    /\ StrLen(r.markdown.runs) = 500
    /\ Strip(r.markdown.runs) # r.markdown.runs
    /\ r.preview.runs = Strip(r.markdown.runs)

====
